---- MODULE Spec2Model ----
(***************************************************************************)
(* Model of server/g_calendar.py: get_calendar_image and get_event_counts. *)
(* The remote calendar and the clock are the environment; one run of       *)
(* get_calendar_image is one behaviour.                                    *)
(***************************************************************************)
EXTENDS Integers, Sequences, FiniteSets, TLC

VARIABLES clock, source, pc, now, first_date, last_date, page_token,
          requests, responses, remaining, event, event_counts,
          total, image, draws, raised_at

\* clock          the date get_now() returns
\* source         what the remote calendar holds (see Source)
\* pc             position in get_calendar_image / get_event_counts
\* requests       the list requests sent so far: timeMin, timeMax, pageToken
\* responses      the responses received: nextPageToken, number of items
\* remaining      items of the current page not yet iterated
\* event          the loop variable of the event loop
\* total          sum of the contributions of every event iterated so far,
\*                each taken on its own (history of the run)
\* image, draws   the canvas exists; the draw operations issued, in order
\* raised_at      where an exception left the call ("none" if none did)
vars == <<clock, source, pc, now, first_date, last_date, page_token,
          requests, responses, remaining, event, event_counts,
          total, image, draws, raised_at>>

(* ---------------------------- bounds ----------------------------------- *)
\* pages the calendar service serves at most for one listing
MaxPages == 2
\* items per response page at most
MaxItems == 2
\* event dates use the days 1..MaxDay of their month
MaxDay == 3

(* ------------------------- program constants --------------------------- *)
DAYS_IN_WEEK == 7
MAX_EVENTS == 3
\* calendar.SUNDAY
SUNDAY == 6
\* Python's None for page_token / nextPageToken
None == 0

\* the cursor that the response to request number i carries when more pages
\* follow: cursors advance with the pages
Cursor(i) == i
Days == 1..31

(* ----------------------------- dates ----------------------------------- *)
Date(y, m, d) == [year |-> y, month |-> m, day |-> d]
NoDate == Date(0, 0, 0)

\* calendar.isleap
isleap(y) == y % 4 = 0 /\ (y % 100 # 0 \/ y % 400 = 0)

\* calendar.mdays with the February correction of monthrange
mdays(y, m) ==
  IF m = 2 THEN (IF isleap(y) THEN 29 ELSE 28)
  ELSE IF m \in {4, 6, 9, 11} THEN 30 ELSE 31

RECURSIVE days_before_month(_, _)
days_before_month(y, m) ==
  IF m = 1 THEN 0 ELSE days_before_month(y, m - 1) + mdays(y, m - 1)

\* datetime.date.toordinal
toordinal(y, m, d) ==
  (y - 1) * 365 + ((y - 1) \div 4) - ((y - 1) \div 100) + ((y - 1) \div 400)
    + days_before_month(y, m) + d

\* calendar.weekday: 0 = Monday .. 6 = Sunday
weekday(y, m, d) == (toordinal(y, m, d) + 6) % 7

\* calendar.monthrange: <<weekday of the first day of the month, number of days>>
monthrange(y, m) == <<weekday(y, m, 1), mdays(y, m)>>

\* datetime.replace(day=d) raises ValueError unless d is a day of the month
ReplaceDayOk(dt, d) == d >= 1 /\ d <= mdays(dt.year, dt.month)
ReplaceDay(dt, d) == [dt EXCEPT !.day = d]

(* ----------------------------- events ---------------------------------- *)
\* A field of a start/end marker: the key is absent, its string cannot be
\* parsed, or it parses to a date.  month is relative to the month of now
\* (-1 previous, 0 the reference month, 1 following).
Absent == [kind |-> "absent", month |-> 0, day |-> 0]
Unparsable == [kind |-> "bad", month |-> 0, day |-> 0]
Unbound == [kind |-> "unbound", month |-> 0, day |-> 0]
DateField(m, d) == [kind |-> "date", month |-> m, day |-> d]

EventDates(months) == {DateField(m, d) : m \in months, d \in 1..MaxDay}

\* A marker carries neither field, a dateTime, a date, both fields naming
\* the same day, or a dateTime or a date that cannot be parsed.
Markers(months) ==
  {[dateTime |-> Absent, date |-> Absent],
   [dateTime |-> Unparsable, date |-> Absent],
   [dateTime |-> Absent, date |-> Unparsable]}
  \cup {[dateTime |-> f, date |-> Absent] : f \in EventDates(months)}
  \cup {[dateTime |-> Absent, date |-> f] : f \in EventDates(months)}
  \cup {[dateTime |-> f, date |-> f] : f \in EventDates(months)}

\* Events the service can return for the month: they start in the previous
\* or the reference month and end in the reference or the following month.
Events == [start : Markers({-1, 0}), end : Markers({0, 1})]

NoEvent == [start |-> [dateTime |-> Unbound, date |-> Unbound],
            end |-> [dateTime |-> Unbound, date |-> Unbound]]

Timed(s, e) == [start |-> [dateTime |-> s, date |-> Absent],
                end |-> [dateTime |-> e, date |-> Absent]]
AllDay(s, e) == [start |-> [dateTime |-> Absent, date |-> s],
                 end |-> [dateTime |-> Absent, date |-> e]]

(* --------------------------- event counting ---------------------------- *)
\* Counter(): every day reads 0 until incremented
Counter == [d \in Days |-> 0]
Incr(counts, d) == [counts EXCEPT ![d] = @ + 1]

\* Variant of CountPair that counts every day of the span
CountPair_FillSpan(counts, s, e) ==
  IF s.kind = "absent" THEN [counts |-> counts, exc |-> "KeyError"]
  ELSE IF s.kind = "bad" THEN [counts |-> counts, exc |-> "ValueError"]
  ELSE IF e.kind = "absent"
    THEN [counts |-> Incr(counts, s.day), exc |-> "KeyError"]
  ELSE IF e.kind = "bad"
    THEN [counts |-> Incr(counts, s.day), exc |-> "ValueError"]
  ELSE [counts |-> [d \in Days |->
                      counts[d] + (IF d = s.day \/ d = e.day
                                      \/ (s.day < d /\ d < e.day)
                                   THEN 1 ELSE 0)],
        exc |-> "none"]

\* One try block of the event loop over the start and end field of one
\* representation: the count of the start day is incremented before the end
\* field is read.
CountPair(counts, s, e) ==
  IF s.kind = "absent" THEN [counts |-> counts, exc |-> "KeyError"]
  ELSE IF s.kind = "bad" THEN [counts |-> counts, exc |-> "ValueError"]
  ELSE LET c1 == Incr(counts, s.day) IN
    IF e.kind = "absent" THEN [counts |-> c1, exc |-> "KeyError"]
    ELSE IF e.kind = "bad" THEN [counts |-> c1, exc |-> "ValueError"]
    ELSE IF s.day # e.day THEN [counts |-> Incr(c1, e.day), exc |-> "none"]
    ELSE [counts |-> c1, exc |-> "none"]

\* "Count regular events": the dateTime fields; KeyError is swallowed
CountTimed(counts, ev) == CountPair(counts, ev.start.dateTime, ev.end.dateTime)

\* "Count all-day events": the date fields; KeyError is swallowed
CountAllDay(counts, ev) == CountPair(counts, ev.start.date, ev.end.date)

\* Body of the for loop for one event: both try blocks run in turn, only a
\* ValueError leaves the loop.
CountEvent(counts, ev) ==
  LET t == CountTimed(counts, ev) IN
    IF t.exc = "ValueError" THEN t
    ELSE LET a == CountAllDay(t.counts, ev) IN
      [counts |-> a.counts,
       exc |-> IF a.exc = "ValueError" THEN "ValueError" ELSE "none"]

(* ------------------------------ drawing -------------------------------- *)
\* Calendar(firstweekday=SUNDAY).itermonthdays: leading zeros, the days,
\* trailing zeros up to a full week
monthdays(y, m) ==
  LET day1 == monthrange(y, m)[1]
      ndays == monthrange(y, m)[2]
      before == (day1 - SUNDAY) % 7
      after == (SUNDAY - day1 - ndays) % 7
  IN [i \in 1..(before + ndays + after) |->
        IF i <= before \/ i > before + ndays THEN 0 ELSE i - before]

\* monthdayscalendar: the days in rows of seven
monthdayscalendar(y, m) ==
  LET ds == monthdays(y, m) IN
    [w \in 1..(Len(ds) \div DAYS_IN_WEEK) |->
       [k \in 1..DAYS_IN_WEEK |-> ds[(w - 1) * DAYS_IN_WEEK + k]]]

Min(a, b) == IF a < b THEN a ELSE b

\* Variant of num_events without the clamp
num_events_NoClamp(count) == count

\* num_events = min(MAX_EVENTS, event_counts[day])
num_events(count) == Min(MAX_EVENTS, count)

\* Draw operations of one day slot at week_index wi, day_index di (0-based);
\* positions are kept as multiples of x_stride and y_stride.
DrawDay(day, wi, di, today, counts) ==
  IF day = 0 THEN <<>>
  ELSE
    LET isToday == day = today
        text_color == IF isToday THEN "TODAY_DOLOR" ELSE "TEXT_COLOR"
        event_color == IF isToday THEN "TODAY_DOLOR" ELSE "HIGHLIGHT_COLOR"
        op(kind, color, k) == [op |-> kind, day |-> day, col |-> di + 1,
                               row |-> wi + 1, color |-> color, index |-> k]
        n == num_events(counts[day])
    IN (IF isToday THEN <<op("squircle", "HIGHLIGHT_COLOR", 0)>> ELSE <<>>)
       \o <<op("text", text_color, 0)>>
       \o [k \in 1..n |-> op("dot", event_color, k - 1)]

RECURSIVE DrawWeek(_, _, _, _, _)
DrawWeek(week, wi, di, today, counts) ==
  IF di >= Len(week) THEN <<>>
  ELSE DrawDay(week[di + 1], wi, di, today, counts)
       \o DrawWeek(week, wi, di + 1, today, counts)

RECURSIVE DrawWeeks(_, _, _, _)
DrawWeeks(weeks, wi, today, counts) ==
  IF wi >= Len(weeks) THEN <<>>
  ELSE DrawWeek(weeks[wi + 1], wi, 0, today, counts)
       \o DrawWeeks(weeks, wi + 1, today, counts)

(* ------------------------------ inputs --------------------------------- *)
\* reference dates of the main specification: a month starting on a Monday
\* and a leap February starting on a Thursday
NowDates == {Date(2024, 1, 1), Date(2024, 2, 15)}

\* reference dates of the month specification
Years == {1900, 2000, 2023, 2024}
MonthDates == {Date(y, m, d) : y \in Years, m \in 1..12, d \in {1, 28}}

\* Events inside the reference month whose markers both carry exactly one
\* field, the same one
WellFormedEvents ==
  {Timed(s, e) : s \in EventDates({0}), e \in EventDates({0})}
  \cup {AllDay(s, e) : s \in EventDates({0}), e \in EventDates({0})}

\* What the remote calendar holds and the number of pages it is served in
\* at most: a few well-formed events on one page, one single event that may
\* show up again on every page, or nothing
Source(mode, ev, pages) == [mode |-> mode, only |-> ev, pages |-> pages]
Sources == {Source("wellformed", NoEvent, 1)}
             \cup {Source("single", e, MaxPages) : e \in Events}
MonthSources ==
  {Source("empty", NoEvent, MaxPages),
   Source("single", Timed(DateField(0, 1), DateField(0, 2)), MaxPages)}

\* the events a response page can hold
Items(src) ==
  IF src.mode = "wellformed" THEN WellFormedEvents
  ELSE IF src.mode = "single" THEN {src.only}
  ELSE {}

(* ------------------------------ state ---------------------------------- *)
InitWith(clocks, calendars) ==
  /\ clock \in clocks
  /\ source \in calendars
  /\ pc = "start"
  /\ now = NoDate
  /\ first_date = NoDate
  /\ last_date = NoDate
  /\ page_token = None
  /\ requests = <<>>
  /\ responses = <<>>
  /\ remaining = 0
  /\ event = NoEvent
  /\ event_counts = Counter
  /\ total = Counter
  /\ image = FALSE
  /\ draws = <<>>
  /\ raised_at = "none"

Init == InitWith(NowDates, Sources)

InitMonths == InitWith(MonthDates, MonthSources)

Raise(at) == pc' = "raised" /\ raised_at' = at

\* get_calendar_image: now = get_now()
GetNow ==
  /\ pc = "start"
  /\ now' = clock
  /\ pc' = "auth"
  /\ UNCHANGED <<clock, source, first_date, last_date, page_token, requests,
                 responses, remaining, event, event_counts, total, image,
                 draws, raised_at>>

\* Variant of Authorize that falls back to a blank calendar on failure
Authorize_Fallback ==
  /\ pc = "auth"
  /\ \E outcome \in {"ok", "save_failed", "error"} :
       pc' = IF outcome = "error" THEN "canvas" ELSE "range"
  /\ event_counts' = Counter
  /\ UNCHANGED <<clock, source, now, first_date, last_date, page_token,
                 requests, responses, remaining, event, total, image, draws,
                 raised_at>>

\* get_event_counts: credentials and service; a failure to save refreshed
\* credentials is logged and the call goes on, any other failure propagates
Authorize ==
  /\ pc = "auth"
  /\ \E outcome \in {"ok", "save_failed", "error"} :
       IF outcome = "error" THEN Raise("auth")
       ELSE pc' = "range" /\ UNCHANGED raised_at
  /\ event_counts' = Counter
  /\ UNCHANGED <<clock, source, now, first_date, last_date, page_token,
                 requests, responses, remaining, event, total, image, draws>>

\* first_day, last_day = monthrange(...); first_date, last_date; page_token
ComputeRange ==
  /\ pc = "range"
  /\ LET first_day == monthrange(now.year, now.month)[1]
         last_day == monthrange(now.year, now.month)[2]
     IN IF ~ReplaceDayOk(now, first_day)
        THEN /\ Raise("range")
             /\ UNCHANGED <<first_date, last_date, page_token>>
        ELSE /\ first_date' = ReplaceDay(now, first_day)
             /\ last_date' = ReplaceDay(ReplaceDay(now, first_day), last_day)
             /\ page_token' = None
             /\ pc' = "request"
             /\ UNCHANGED raised_at
  /\ UNCHANGED <<clock, source, now, requests, responses, remaining, event,
                 event_counts, total, image, draws>>

\* service.events().list(...).execute(): the request carries the range and the
\* current page_token; the response has its items and maybe a nextPageToken
RequestPage ==
  /\ pc = "request"
  /\ requests' = Append(requests, [timeMin |-> first_date,
                                   timeMax |-> last_date,
                                   pageToken |-> page_token])
  /\ \/ /\ Raise("request")
        /\ UNCHANGED <<responses, remaining>>
     \/ /\ \E n \in 0..MaxItems,
              t \in (IF Len(requests) + 1 < source.pages
                      THEN {Cursor(Len(requests) + 1)} ELSE {})
                      \cup {None} :
             /\ (n > 0 => Items(source) # {})
             /\ responses' = Append(responses, [nextPageToken |-> t,
                                                items |-> n])
             /\ remaining' = n
        /\ pc' = "items"
        /\ UNCHANGED raised_at
  /\ UNCHANGED <<clock, source, now, first_date, last_date, page_token,
                 event, event_counts, total, image, draws>>

\* one iteration of "for event in response['items']"
ProcessEvent ==
  /\ pc = "items"
  /\ remaining > 0
  /\ \E ev \in Items(source) :
       LET r == CountEvent(event_counts, ev) IN
         /\ event' = ev
         /\ event_counts' = r.counts
         /\ IF r.exc = "ValueError"
            THEN Raise("items") /\ UNCHANGED <<remaining, total>>
            ELSE /\ remaining' = remaining - 1
                 /\ total' = [d \in Days |->
                                total[d] + CountEvent(Counter, ev).counts[d]]
                 /\ UNCHANGED <<pc, raised_at>>
  /\ UNCHANGED <<clock, source, now, first_date, last_date, page_token,
                 requests, responses, image, draws>>

\* Variant of NextPage that leaves the loop after the first page
NextPage_StopEarly ==
  /\ pc = "items"
  /\ remaining = 0
  /\ page_token' = responses[Len(responses)].nextPageToken
  /\ pc' = "canvas"
  /\ UNCHANGED <<clock, source, now, first_date, last_date, requests,
                 responses, remaining, event, event_counts, total, image,
                 draws, raised_at>>

\* page_token = response.get("nextPageToken"); if not page_token: break
NextPage ==
  /\ pc = "items"
  /\ remaining = 0
  /\ page_token' = responses[Len(responses)].nextPageToken
  /\ pc' = IF page_token' = None THEN "canvas" ELSE "request"
  /\ UNCHANGED <<clock, source, now, first_date, last_date, requests,
                 responses, remaining, event, event_counts, total, image,
                 draws, raised_at>>

\* image = Image.new(...); draw = Draw(image)
CreateCanvas ==
  /\ pc = "canvas"
  /\ image' = TRUE
  /\ pc' = "draw"
  /\ UNCHANGED <<clock, source, now, first_date, last_date, page_token,
                 requests, responses, remaining, event, event_counts,
                 total, draws, raised_at>>

\* the loops over weeks and days, then return image
DrawCalendar ==
  /\ pc = "draw"
  /\ draws' = DrawWeeks(monthdayscalendar(now.year, now.month), 0, now.day,
                        event_counts)
  /\ pc' = "done"
  /\ UNCHANGED <<clock, source, now, first_date, last_date, page_token,
                 requests, responses, remaining, event, event_counts,
                 total, image, raised_at>>

Next ==
  \/ GetNow
  \/ Authorize
  \/ ComputeRange
  \/ RequestPage
  \/ ProcessEvent
  \/ NextPage
  \/ CreateCanvas
  \/ DrawCalendar

Spec == Init /\ [][Next]_vars

SpecMonths == InitMonths /\ [][Next]_vars

(* ----------------------------- properties ------------------------------ *)
\* a step of the event loop that finished one event without raising
EventCounted == pc = "items" /\ remaining' = remaining - 1

IsDate(f) == f.kind = "date"

\* both markers carry the dateTime field only
IsTimed(ev) ==
  /\ IsDate(ev.start.dateTime) /\ IsDate(ev.end.dateTime)
  /\ ev.start.date = Absent /\ ev.end.date = Absent

\* both markers carry the date field only
IsAllDay(ev) ==
  /\ IsDate(ev.start.date) /\ IsDate(ev.end.date)
  /\ ev.start.dateTime = Absent /\ ev.end.dateTime = Absent

StartOf(ev) == IF IsTimed(ev) THEN ev.start.dateTime ELSE ev.start.date
EndOf(ev) == IF IsTimed(ev) THEN ev.end.dateTime ELSE ev.end.date

\* counts with one more on day s and, if different, on day e
BoundaryBump(counts, s, e) ==
  [d \in Days |-> counts[d] + (IF d = s \/ d = e THEN 1 ELSE 0)]

RECURSIVE SumItems(_, _)
SumItems(resp, i) ==
  IF i = 0 THEN 0 ELSE resp[i].items + SumItems(resp, i - 1)

Returned == pc \in {"canvas", "draw", "done"}

DotCount(d) ==
  Cardinality({i \in DOMAIN draws : draws[i].op = "dot" /\ draws[i].day = d})

\* C1: processing an event whose start and end are both timed or both
\* all-day adds exactly 1 to the start day, exactly 1 to the end day if it
\* differs, and leaves every other day unchanged, the days between included.
C1_BoundaryCounts ==
  [][(EventCounted /\ (IsTimed(event') \/ IsAllDay(event')))
       => event_counts' = BoundaryBump(event_counts, StartOf(event').day,
                                       EndOf(event').day)]_vars

C1_Witness ==
  /\ pc = "items"
  /\ event = Timed(DateField(0, 1), DateField(0, 3))
  /\ event_counts[1] = 1 /\ event_counts[2] = 0 /\ event_counts[3] = 1

\* C2: every page request carries the range from midnight of day 1 of the
\* month of the reference date to midnight of the last day of that month.
C2_MonthRange ==
  \A i \in DOMAIN requests :
    /\ requests[i].timeMin = Date(now.year, now.month, 1)
    /\ requests[i].timeMax = Date(now.year, now.month,
                                  mdays(now.year, now.month))

\* C3: a malformed event never aborts the aggregation.
C3_MalformedNeverAborts == ~(pc = "raised" /\ raised_at = "items")

\* C4: get_event_counts fails only when the calendar-data source fails
\* (authentication or a page request) provided every event is well-formed.
C4_FailsOnlyWithSource ==
  pc = "raised" =>
    \/ raised_at \in {"auth", "request"}
    \/ raised_at = "items" /\ ~(IsTimed(event) \/ IsAllDay(event))

\* C5: the first request carries no cursor, each later request carries the
\* cursor of the previous response, a further page is requested exactly when
\* the previous response carried a cursor, and the returned counts are the
\* sum over every event of every page, a repeated event counted each time.
C5_Pagination ==
  /\ requests # <<>> => requests[1].pageToken = None
  /\ \A i \in 2..Len(requests) :
       /\ responses[i - 1].nextPageToken # None
       /\ requests[i].pageToken = responses[i - 1].nextPageToken
  /\ (pc = "request" /\ requests # <<>>) =>
       /\ Len(responses) = Len(requests)
       /\ responses[Len(responses)].nextPageToken # None
       /\ page_token = responses[Len(responses)].nextPageToken
  /\ Returned =>
       /\ requests # <<>>
       /\ Len(responses) = Len(requests)
       /\ responses[Len(responses)].nextPageToken = None
       /\ event_counts = total
       /\ source.mode = "single" =>
            \A d \in Days :
              event_counts[d] = SumItems(responses, Len(responses))
                                  * CountEvent(Counter, source.only).counts[d]

C5_Witness ==
  /\ pc = "done"
  /\ Len(requests) = 2
  /\ responses[1].items = 1 /\ responses[2].items = 1
  /\ source = Source("single", Timed(DateField(0, 2), DateField(0, 2)),
                     MaxPages)
  /\ event_counts[2] = 2

\* C6: no canvas and no draw operation before the last page has been
\* received and processed; a failure of authentication or of a page request
\* reaches the caller with no canvas and no draw operation.
C6_Sequential ==
  /\ (image \/ draws # <<>>) =>
       /\ pc \in {"draw", "done"}
       /\ requests # <<>>
       /\ Len(responses) = Len(requests)
       /\ responses[Len(responses)].nextPageToken = None
       /\ remaining = 0
  /\ pc = "raised" => (~image /\ draws = <<>>)
  /\ (pc = "done" \/ image) => raised_at = "none"

C6_Witness ==
  /\ pc = "raised"
  /\ raised_at = "request"
  /\ Len(requests) = 2
  /\ Len(responses) = 1
  /\ event_counts[1] > 0
  /\ ~image /\ draws = <<>>

\* C7: for every day of the rendered month the number of dot operations is
\* min(3, count of the day); no dot is drawn for an empty slot.
C7_ClampedDots ==
  pc = "done" =>
    /\ \A d \in 1..mdays(now.year, now.month) :
         DotCount(d) = (IF event_counts[d] < 3 THEN event_counts[d] ELSE 3)
    /\ \A i \in DOMAIN draws :
         draws[i].day \in 1..mdays(now.year, now.month)

C7_Witness ==
  /\ pc = "done"
  /\ source.mode = "single" /\ IsAllDay(source.only)
  /\ event_counts[1] = 4 /\ DotCount(1) = 3
  /\ event_counts[2] = 0 /\ DotCount(2) = 0

\* C8: an event for which the start or the end carries neither the dateTime
\* nor the date field leaves every count unchanged.
C8_IncompleteSkipped ==
  [][(EventCounted /\ (\/ (event'.start.dateTime = Absent
                           /\ event'.start.date = Absent)
                       \/ (event'.end.dateTime = Absent
                           /\ event'.end.date = Absent)))
       => event_counts' = event_counts]_vars

\* C9: an event carrying the timed and the all-day fields is counted as the
\* same event with its timed fields only.
C9_OneRepresentation ==
  [][(EventCounted /\ IsDate(event'.start.dateTime)
        /\ IsDate(event'.end.dateTime) /\ IsDate(event'.start.date)
        /\ IsDate(event'.end.date))
       => event_counts' = BoundaryBump(event_counts,
                                       event'.start.dateTime.day,
                                       event'.end.dateTime.day)]_vars

\* C10: the count of day d grows only by events whose start or end lies on
\* day d of the reference month itself.
C10_ReferenceMonthOnly ==
  [][(EventCounted /\ (IsTimed(event') \/ IsAllDay(event')))
       => \A d \in Days :
            event_counts'[d] > event_counts[d] =>
              \/ (StartOf(event').month = 0 /\ StartOf(event').day = d)
              \/ (EndOf(event').month = 0 /\ EndOf(event').day = d)]_vars
====
